---- MODULE Spec2Model ----
(***************************************************************************)
(* State machine of the chat page component HomePage (src/app/page.tsx):   *)
(* the React state of the component, the browser's localStorage, the       *)
(* clock read by Date.now(), and the chat requests in flight together with *)
(* the values their continuation closed over when the request was issued.  *)
(*                                                                         *)
(* Every event handler runs to completion, React re-renders, and the       *)
(* effects of that render run, before the next event is dispatched: one    *)
(* action is one handler plus the effects its state updates trigger.  The  *)
(* part of handleSendMessage after the await runs as a separate event and  *)
(* reads the variables of the render in which the handler was created.     *)
(*                                                                         *)
(* Text is modelled by TLA+ strings, instants by milliseconds since the    *)
(* epoch, rendered in UTC with the en-US locale.                           *)
(***************************************************************************)
EXTENDS Integers, Sequences, FiniteSets, TLC

VARIABLES
  conversations,          \* useState<Conversation[]>
  currentConversationId,  \* useState<string | null>
  messages,               \* useState<Message[]>: the visible thread
  input,                  \* useState(''): the pending input
  loading,                \* useState(false)
  knowledgeDocuments,     \* useState<KnowledgeDocument[]>
  localStorage,           \* the two keys of the browser's localStorage
  now,                    \* the last reading of Date.now()
  pending,                \* requests awaiting fetch, with their closures
  data,                   \* the body of the last response, as parsed
  nAdds,                  \* history: accepted handleAddDocument calls
  nDeletes,               \* history: deleteDocument calls
  noop,                   \* history: the call that was the last event, when
                          \* it left the program's state as it was
  fileSize                \* the byte count given to formatFileSize and the
                          \* text it returned ("" before the call)

\* the state of the program: the component, the store, the clock, the requests
program == <<conversations, currentConversationId, messages, input, loading,
             knowledgeDocuments, localStorage, now, pending, data>>

\* what no handler of the page writes
aside == <<noop, fileSize>>

vars == <<conversations, currentConversationId, messages, input, loading,
          knowledgeDocuments, localStorage, now, pending, data, nAdds,
          nDeletes, noop, fileSize>>

(***************************************************************************)
(* Bounds of the model.                                                    *)
(***************************************************************************)
MaxConvs == 2     \* conversations in the collection
MaxMsgs == 5      \* messages in the visible thread
MaxThread == 3    \* messages in the visible thread, one turn a thread
MaxDocs == 2      \* accepted document uploads
MaxDeletes == 2   \* document deletions
MaxTicks == 1     \* minutes the clock advances after the first page load
MaxBytes == 100   \* byte counts 0..MaxBytes, and those around each unit
StartNow == 45296789  \* clock reading at the first page load (12:34:56.789)

(***************************************************************************)
(* Values.                                                                 *)
(***************************************************************************)
\* null, the value of currentConversationId when no conversation is active
null == "<null>"
\* a key of localStorage holds <<>> (getItem returns null) or <<text>>
NoItem == <<>>

\* values of the response body: undefined, a string, or the object
\* { result?, response?, text? }
Undefined == [type |-> "undefined"]
Str(s) == [type |-> "string", value |-> s]
Obj(r, p, t) == [type |-> "object", result |-> r, response |-> p, text |-> t]

LongInput == "0123456789012345678901234567890123456789012345678901"
Inputs == {" ", "hi", LongInput}
\* the fields uploadName and uploadContent of the upload form
Uploads ==
  { <<"", "x">>, <<"a", " \n">>, <<"a", "x">>, <<"b", "yz">>, <<"a", "yz">>,
    <<" \t", "x">>, <<"a", "">> }

\* s[i..i] of a string
CharAt(s, i) == SubSeq(s, i, i)

\* String.prototype.trim() leaves nothing: every character is white space
IsBlank(s) == \A i \in 1..Len(s) : CharAt(s, i) \in {" ", "\n", "\t"}

\* String.prototype.substring(0, n)
Substring0(s, n) == SubSeq(s, 1, IF Len(s) < n THEN Len(s) ELSE n)

\* String.prototype.padStart(2, '0') of a number's decimal form
PadStart2(n) == IF n < 10 THEN "0" \o ToString(n) ELSE ToString(n)
PadStart3(n) == IF n < 10 THEN "00" \o ToString(n)
                ELSE IF n < 100 THEN "0" \o ToString(n) ELSE ToString(n)

getHours(t) == (t \div 3600000) % 24
getMinutes(t) == (t \div 60000) % 60
getSeconds(t) == (t \div 1000) % 60
getMilliseconds(t) == t % 1000

formatTimestamp(t) == PadStart2(getHours(t)) \o ":" \o PadStart2(getMinutes(t))

\* Date.prototype.toISOString(), for instants of the first day of the epoch
toISOString(t) ==
  "1970-01-01T" \o PadStart2(getHours(t)) \o ":" \o PadStart2(getMinutes(t))
    \o ":" \o PadStart2(getSeconds(t)) \o "." \o PadStart3(getMilliseconds(t))
    \o "Z"

\* Date.prototype.toLocaleString(), en-US, first day of the epoch
toLocaleString(t) ==
  LET h == getHours(t)
      h12 == IF h % 12 = 0 THEN 12 ELSE h % 12
  IN "1/1/1970, " \o ToString(h12) \o ":" \o PadStart2(getMinutes(t))
       \o ":" \o PadStart2(getSeconds(t)) \o (IF h < 12 THEN " AM" ELSE " PM")

(***************************************************************************)
(* formatFileSize, for byte counts below 2^31.                             *)
(***************************************************************************)
\* const sizes = ['Bytes', 'KB', 'MB']; sizes[i], 'undefined' past the end
\* when concatenated
sizes(i) ==
  IF i < 3 THEN <<"Bytes", "KB", "MB">>[i + 1] ELSE "undefined"

\* Math.floor(Math.log(bytes) / Math.log(k)), k = 1024
FloorLog(bytes) ==
  CHOOSE i \in 0..3 : 1024^i <= bytes /\ (i < 3 => bytes < 1024^(i + 1))

\* Math.round(x * 100), x = bytes / Math.pow(k, i): the hundredths of x,
\* halves rounded up
RoundedHundredths(bytes, i) ==
  LET p == 1024^i
  IN (bytes \div p) * 100 + ((bytes % p) * 100 + p \div 2) \div p

\* the text of the number h / 100, as string concatenation writes it
NumberText(h) ==
  LET whole == h \div 100
      cents == h % 100
  IN IF cents = 0 THEN ToString(whole)
     ELSE IF cents % 10 = 0
          THEN ToString(whole) \o "." \o ToString(cents \div 10)
          ELSE ToString(whole) \o "." \o PadStart2(cents)

formatFileSize(bytes) ==
  IF bytes = 0 THEN "0 Bytes"
  ELSE LET i == FloorLog(bytes)
       IN NumberText(RoundedHundredths(bytes, i)) \o " " \o sizes(i)

(***************************************************************************)
(* Array helpers.                                                          *)
(***************************************************************************)
\* Array.prototype.findIndex on the id, 1-based; 0 when no element matches
findIndex(arr, id) ==
  IF \E i \in 1..Len(arr) : arr[i].id = id
  THEN CHOOSE i \in 1..Len(arr) :
         arr[i].id = id /\ \A j \in 1..(i - 1) : arr[j].id # id
  ELSE 0

\* Array.prototype.filter((doc) => doc.id !== docId)
RECURSIVE filterOut(_, _)
filterOut(arr, id) ==
  IF arr = <<>> THEN <<>>
  ELSE IF Head(arr).id # id THEN <<Head(arr)>> \o filterOut(Tail(arr), id)
       ELSE filterOut(Tail(arr), id)

(***************************************************************************)
(* localStorage: JSON.stringify writes an object as its key/value pairs in *)
(* property order, JSON.parse rebuilds the object from the pairs.          *)
(***************************************************************************)
StringifyMessage(m) ==
  << <<"id", m.id>>, <<"content", m.content>>, <<"role", m.role>>,
     <<"timestamp", m.timestamp>> >>

StringifyConversation(c) ==
  << <<"id", c.id>>, <<"title", c.title>>,
     <<"messages", [i \in 1..Len(c.messages) |-> StringifyMessage(c.messages[i])]>>,
     <<"createdAt", c.createdAt>> >>

StringifyDocument(d) ==
  << <<"id", d.id>>, <<"name", d.name>>, <<"content", d.content>>,
     <<"uploadedAt", d.uploadedAt>>, <<"size", d.size>> >>

JSONstringifyConversations(arr) ==
  [i \in 1..Len(arr) |-> StringifyConversation(arr[i])]

JSONstringifyDocuments(arr) ==
  [i \in 1..Len(arr) |-> StringifyDocument(arr[i])]

\* the value of property key in a parsed object
Prop(pairs, key) ==
  LET i == CHOOSE j \in 1..Len(pairs) : pairs[j][1] = key IN pairs[i][2]

ParseMessage(p) ==
  [id |-> Prop(p, "id"), content |-> Prop(p, "content"),
   role |-> Prop(p, "role"), timestamp |-> Prop(p, "timestamp")]

ParseConversation(p) ==
  [id |-> Prop(p, "id"), title |-> Prop(p, "title"),
   messages |-> [i \in 1..Len(Prop(p, "messages")) |->
                   ParseMessage(Prop(p, "messages")[i])],
   createdAt |-> Prop(p, "createdAt")]

ParseDocument(p) ==
  [id |-> Prop(p, "id"), name |-> Prop(p, "name"),
   content |-> Prop(p, "content"), uploadedAt |-> Prop(p, "uploadedAt"),
   size |-> Prop(p, "size")]

JSONparseConversations(text) ==
  [i \in 1..Len(text) |-> ParseConversation(text[i])]

JSONparseDocuments(text) ==
  [i \in 1..Len(text) |-> ParseDocument(text[i])]

\* useEffect on [conversations]: written only when the array is not empty
SaveConversations(store, convs) ==
  IF Len(convs) > 0
  THEN [store EXCEPT !.conversations = <<JSONstringifyConversations(convs)>>]
  ELSE store

\* useEffect on [knowledgeDocuments]: written only when the array is not empty
SaveDocuments(store, docs) ==
  IF Len(docs) > 0
  THEN [store EXCEPT !.knowledgeDocuments = <<JSONstringifyDocuments(docs)>>]
  ELSE store

\* what the mount effect puts in the conversations state
LoadedConversations(store) ==
  IF store.conversations # NoItem
  THEN JSONparseConversations(store.conversations[1]) ELSE <<>>

LoadedDocuments(store) ==
  IF store.knowledgeDocuments # NoItem
  THEN JSONparseDocuments(store.knowledgeDocuments[1]) ELSE <<>>

(***************************************************************************)
(* Initial state: the first page load, nothing persisted.                  *)
(***************************************************************************)
Init ==
  /\ conversations = <<>>
  /\ currentConversationId = null
  /\ messages = <<>>
  /\ input = ""
  /\ loading = FALSE
  /\ knowledgeDocuments = <<>>
  /\ localStorage = [conversations |-> NoItem, knowledgeDocuments |-> NoItem]
  /\ now = StartNow
  /\ pending = <<>>
  /\ data = Undefined
  /\ nAdds = 0
  /\ nDeletes = 0
  /\ noop = <<>>
  /\ fileSize = [bytes |-> 0, text |-> ""]

(***************************************************************************)
(* The clock: a handler that calls Date.now() reads t, which is the last   *)
(* reading or a minute later.                                              *)
(***************************************************************************)
Readings ==
  {t \in {now, now + 60000} : t <= StartNow + 60000 * MaxTicks}

(***************************************************************************)
(* A page load: the component is mounted with its initial state, the mount *)
(* effect reads localStorage, the save effects run.  Requests of the       *)
(* previous page are dropped with it.                                      *)
(***************************************************************************)
Mount ==
  LET parsed == LoadedConversations(localStorage)
      docs == LoadedDocuments(localStorage)
  IN /\ conversations' = parsed
     /\ currentConversationId' = IF Len(parsed) > 0 THEN parsed[1].id ELSE null
     /\ messages' = IF Len(parsed) > 0 THEN parsed[1].messages ELSE <<>>
     /\ input' = ""
     /\ loading' = FALSE
     /\ knowledgeDocuments' = docs
     /\ localStorage' = SaveDocuments(SaveConversations(localStorage, parsed), docs)
     /\ pending' = <<>>
     /\ UNCHANGED <<now, data, nAdds, nDeletes>>

(***************************************************************************)
(* createNewConversation                                                   *)
(***************************************************************************)
NewConversation(t) ==
  [id |-> ToString(t),
   title |-> "New Conversation",
   messages |-> << [id |-> "1", content |-> "Hi! How can I help you today?",
                    role |-> "assistant", timestamp |-> toLocaleString(t)] >>,
   createdAt |-> toISOString(t)]

\* createNewConversation putting the conversation last instead of first
createNewConversationLast(t) ==
  /\ Len(conversations) < MaxConvs
  /\ now' = t
  /\ LET newConversation == NewConversation(t)
     IN /\ conversations' = Append(conversations, newConversation)
        /\ currentConversationId' = newConversation.id
        /\ messages' = newConversation.messages
        /\ input' = ""
        /\ localStorage' = SaveConversations(localStorage, conversations')
  /\ UNCHANGED <<loading, knowledgeDocuments, pending, data, nAdds,
                 nDeletes>>

createNewConversation(t) ==
  /\ Len(conversations) < MaxConvs
  /\ now' = t
  /\ LET newConversation == NewConversation(t)
     IN /\ conversations' = <<newConversation>> \o conversations
        /\ currentConversationId' = newConversation.id
        /\ messages' = newConversation.messages
        /\ input' = ""
        /\ localStorage' = SaveConversations(localStorage, conversations')
  /\ UNCHANGED <<loading, knowledgeDocuments, pending, data, nAdds,
                 nDeletes>>

(***************************************************************************)
(* switchConversation(convId), from a click on a sidebar entry             *)
(***************************************************************************)
\* switchConversation leaving the visible thread as it was
switchConversationKeepThread(convId) ==
  LET i == findIndex(conversations, convId)
  IN /\ IF i # 0
        THEN /\ currentConversationId' = convId
             /\ messages' = messages
        ELSE UNCHANGED <<currentConversationId, messages>>
     /\ UNCHANGED <<conversations, input, loading, knowledgeDocuments,
                    localStorage, now, pending, data, nAdds, nDeletes>>

switchConversation(convId) ==
  LET i == findIndex(conversations, convId)
  IN /\ IF i # 0
        THEN /\ currentConversationId' = convId
             /\ messages' = conversations[i].messages
        ELSE UNCHANGED <<currentConversationId, messages>>
     /\ UNCHANGED <<conversations, input, loading, knowledgeDocuments,
                    localStorage, now, pending, data, nAdds, nDeletes>>

(***************************************************************************)
(* onChange of the message input, which is disabled while loading          *)
(***************************************************************************)
setInput(value) ==
  /\ ~loading
  /\ input' = value
  /\ UNCHANGED <<conversations, currentConversationId, messages, loading,
                 knowledgeDocuments, localStorage, now, pending, data, nAdds,
                 nDeletes>>

(***************************************************************************)
(* handleAddDocument, submitted with the form fields uploadName and        *)
(* uploadContent                                                           *)
(***************************************************************************)
\* new Blob([content]).size, for text of one-byte characters
BlobSize(content) == Len(content)

NewDocument(t, uploadName, uploadContent) ==
  [id |-> ToString(t), name |-> uploadName, content |-> uploadContent,
   uploadedAt |-> toISOString(t), size |-> BlobSize(uploadContent)]

\* handleAddDocument putting the document last instead of first
handleAddDocumentLast(uploadName, uploadContent, t) ==
  IF IsBlank(uploadName) \/ IsBlank(uploadContent)
  THEN UNCHANGED <<program, nAdds, nDeletes>>
  ELSE /\ nAdds < MaxDocs
       /\ knowledgeDocuments' =
            Append(knowledgeDocuments, NewDocument(t, uploadName, uploadContent))
       /\ localStorage' = SaveDocuments(localStorage, knowledgeDocuments')
       /\ nAdds' = nAdds + 1
       /\ now' = t
       /\ UNCHANGED <<conversations, currentConversationId, messages, input,
                      loading, pending, data, nDeletes>>

\* handleAddDocument looking at the name alone
handleAddDocumentNameOnly(uploadName, uploadContent, t) ==
  IF IsBlank(uploadName)
  THEN UNCHANGED <<program, nAdds, nDeletes>>
  ELSE /\ nAdds < MaxDocs
       /\ knowledgeDocuments' =
            <<NewDocument(t, uploadName, uploadContent)>> \o knowledgeDocuments
       /\ localStorage' = SaveDocuments(localStorage, knowledgeDocuments')
       /\ nAdds' = nAdds + 1
       /\ now' = t
       /\ UNCHANGED <<conversations, currentConversationId, messages, input,
                      loading, pending, data, nDeletes>>

handleAddDocument(uploadName, uploadContent, t) ==
  IF IsBlank(uploadName) \/ IsBlank(uploadContent)
  THEN UNCHANGED <<program, nAdds, nDeletes>>
  ELSE /\ nAdds < MaxDocs
       /\ knowledgeDocuments' =
            <<NewDocument(t, uploadName, uploadContent)>> \o knowledgeDocuments
       /\ localStorage' = SaveDocuments(localStorage, knowledgeDocuments')
       /\ nAdds' = nAdds + 1
       /\ now' = t
       /\ UNCHANGED <<conversations, currentConversationId, messages, input,
                      loading, pending, data, nDeletes>>

(***************************************************************************)
(* deleteDocument(docId)                                                   *)
(***************************************************************************)
\* deleteDocument removing the first document, whatever its id
deleteDocumentFirst(docId) ==
  /\ nDeletes < MaxDeletes
  /\ knowledgeDocuments' =
       IF knowledgeDocuments = <<>> THEN <<>> ELSE Tail(knowledgeDocuments)
  /\ localStorage' = SaveDocuments(localStorage, knowledgeDocuments')
  /\ nDeletes' = nDeletes + 1
  /\ UNCHANGED <<conversations, currentConversationId, messages, input,
                 loading, now, pending, data, nAdds>>

deleteDocument(docId) ==
  /\ nDeletes < MaxDeletes
  /\ knowledgeDocuments' = filterOut(knowledgeDocuments, docId)
  /\ localStorage' = SaveDocuments(localStorage, knowledgeDocuments')
  /\ nDeletes' = nDeletes + 1
  /\ UNCHANGED <<conversations, currentConversationId, messages, input,
                 loading, now, pending, data, nAdds>>

(***************************************************************************)
(* handleSendMessage, up to the await of fetch                             *)
(***************************************************************************)
\* knowledgeDocuments.map((doc) => `Document: ${doc.name}\n${doc.content}`)
DocumentTexts(docs) ==
  [i \in 1..Len(docs) |-> "Document: " \o docs[i].name \o "\n" \o docs[i].content]

\* Array.prototype.join(sep)
RECURSIVE join(_, _)
join(arr, sep) ==
  IF arr = <<>> THEN ""
  ELSE IF Len(arr) = 1 THEN arr[1]
       ELSE arr[1] \o sep \o join(Tail(arr), sep)

\* knowledgeContext of the first document alone
knowledgeContextFirst(docs) ==
  IF Len(docs) > 0
  THEN "\n\nRelevant Knowledge Base:\n" \o DocumentTexts(docs)[1]
  ELSE ""

knowledgeContext(docs) ==
  IF Len(docs) > 0
  THEN "\n\nRelevant Knowledge Base:\n" \o join(DocumentTexts(docs), "\n---\n")
  ELSE ""

RequestBody(text, docs, convId) ==
  [message |-> text \o knowledgeContext(docs),
   agent_id |-> "693bfaa59188cfbc911c685e",
   user_id |-> "user-chat-" \o convId,
   session_id |-> "session-" \o convId]

\* the guard without its look at the active conversation
SendAcceptedNoConversation == ~IsBlank(input) /\ ~loading

\* the guard of line 182
SendAccepted == ~IsBlank(input) /\ ~loading /\ currentConversationId # null

\* the conversations array after the title update of lines 199-205, which
\* assigns the title on the conversation object itself
\* the condition of line 200
FirstUserMessage(convs, convId) ==
  LET conversationIndex == findIndex(convs, convId)
  IN conversationIndex # 0 /\ Len(convs[conversationIndex].messages) = 1

TitledConversations(convs, convId, text) ==
  IF FirstUserMessage(convs, convId)
  THEN [convs EXCEPT ![findIndex(convs, convId)].title = Substring0(text, 50)]
  ELSE convs

\* a closure that sees the conversations as they were before the title update
CapturedUntitled(convs, convId, text) == convs

\* what the closure of the pending continuation sees as conversations: the
\* array of the render that issued the request, whose conversation objects
\* are the ones the title update assigned to
CapturedConversations(convs, convId, text) ==
  TitledConversations(convs, convId, text)

\* a send that leaves loading as it was
LoadingNotSet == FALSE

\* setLoading(true), line 195
LoadingWhilePending == TRUE

handleSendMessage(maxThread, t) ==
  IF ~SendAccepted
  THEN UNCHANGED <<program, nAdds, nDeletes>>
  ELSE /\ Len(messages) + 2 <= maxThread
       /\ LET userMessage == [id |-> ToString(t), content |-> input,
                              role |-> "user", timestamp |-> formatTimestamp(t)]
              updatedMessages == Append(messages, userMessage)
              titled == TitledConversations(conversations, currentConversationId, input)
          IN /\ messages' = updatedMessages
             /\ input' = ""
             /\ loading' = LoadingWhilePending
             /\ conversations' = titled
             /\ localStorage' =
                  IF FirstUserMessage(conversations, currentConversationId)
                  THEN SaveConversations(localStorage, titled)
                  ELSE localStorage
             /\ pending' = Append(pending,
                  [conversations |->
                     CapturedConversations(conversations,
                                           currentConversationId, input),
                   currentConversationId |-> currentConversationId,
                   updatedMessages |-> updatedMessages,
                   input |-> input,
                   body |-> RequestBody(input, knowledgeDocuments,
                                        currentConversationId)])
       /\ now' = t
       /\ UNCHANGED <<currentConversationId, knowledgeDocuments, data,
                      nAdds, nDeletes>>

(***************************************************************************)
(* handleSendMessage, after the await: the response of request k arrives   *)
(***************************************************************************)
Truthy(v) == v.type = "object" \/ (v.type = "string" /\ v.value # "")

\* a || b
Or(a, b) == IF Truthy(a) THEN a ELSE b

\* v?.field
Field(v, field) == IF v.type = "object" THEN v[field] ELSE Undefined

\* the extraction with the text field tried before the response field
assistantContentTextFirst(d) ==
  IF d.success /\ Truthy(d.response)
  THEN Or(Field(d.response, "result"),
       Or(Field(d.response, "text"),
       Or(Field(d.response, "response"),
       Or(IF d.response.type = "string" THEN d.response ELSE Undefined,
       Or(d.raw_response,
          Str("No response generated"))))))
  ELSE IF Truthy(d.raw_response)
       THEN d.raw_response
       ELSE Str("I encountered an error processing your request. Please try again.")

\* lines 236-250
assistantContent(d) ==
  IF d.success /\ Truthy(d.response)
  THEN Or(Field(d.response, "result"),
       Or(Field(d.response, "response"),
       Or(Field(d.response, "text"),
       Or(IF d.response.type = "string" THEN d.response ELSE Undefined,
       Or(d.raw_response,
          Str("No response generated"))))))
  ELSE IF Truthy(d.raw_response)
       THEN d.raw_response
       ELSE Str("I encountered an error processing your request. Please try again.")

\* the map storing the thread without the reply
WithMessagesUnanswered(convs, convId, finalMessages) ==
  [i \in 1..Len(convs) |->
     IF convs[i].id = convId
     THEN [convs[i] EXCEPT !.messages =
             SubSeq(finalMessages, 1, Len(finalMessages) - 1)]
     ELSE convs[i]]

\* conversations.map((conv) => conv.id === currentConversationId
\*   ? { ...conv, messages: finalMessages } : conv)
WithMessages(convs, convId, finalMessages) ==
  [i \in 1..Len(convs) |->
     IF convs[i].id = convId
     THEN [convs[i] EXCEPT !.messages = finalMessages]
     ELSE convs[i]]

RemoveAt(seq, k) == SubSeq(seq, 1, k - 1) \o SubSeq(seq, k + 1, Len(seq))

\* the continuation without its finally block: loading is left set
SettleLoadingKept(k, content, t) ==
  LET r == pending[k]
      assistantMessage == [id |-> ToString(t + 1), content |-> content,
                           role |-> "assistant",
                           timestamp |-> formatTimestamp(t)]
      finalMessages == Append(r.updatedMessages, assistantMessage)
  IN /\ messages' = finalMessages
     /\ conversations' =
          WithMessages(r.conversations, r.currentConversationId, finalMessages)
     /\ localStorage' = SaveConversations(localStorage, conversations')
     /\ loading' = loading
     /\ pending' = RemoveAt(pending, k)
     /\ now' = t
     /\ UNCHANGED <<currentConversationId, input, knowledgeDocuments,
                    nAdds, nDeletes>>

\* lines 252-266 and 269-284: the reply is appended to the thread and to
\* the conversations of the render that issued the request
Settle(k, content, t) ==
  LET r == pending[k]
      assistantMessage == [id |-> ToString(t + 1), content |-> content,
                           role |-> "assistant",
                           timestamp |-> formatTimestamp(t)]
      finalMessages == Append(r.updatedMessages, assistantMessage)
  IN /\ messages' = finalMessages
     /\ conversations' =
          WithMessages(r.conversations, r.currentConversationId, finalMessages)
     /\ localStorage' = SaveConversations(localStorage, conversations')
     /\ loading' = FALSE
     /\ pending' = RemoveAt(pending, k)
     /\ now' = t
     /\ UNCHANGED <<currentConversationId, input, knowledgeDocuments,
                    nAdds, nDeletes>>

\* the bodies the endpoint answers with in the full model
Replies ==
  { [success |-> TRUE, response |-> Obj(Str("R"), Undefined, Undefined),
     raw_response |-> Undefined] }

handleResponse(k, d, t) ==
  /\ data' = d
  /\ Settle(k, assistantContent(d).value, t)

\* fetch rejects, or response.json() throws
handleFailure(k, t) ==
  /\ data' = data
  /\ Settle(k, "Sorry, I encountered an error. Please try again.", t)

ConversationIds == {conversations[i].id : i \in 1..Len(conversations)} \cup {"0000"}
DocumentIds == {knowledgeDocuments[i].id : i \in 1..Len(knowledgeDocuments)} \cup {"0000"}

(***************************************************************************)
(* The page: every event, every clock reading.                             *)
(***************************************************************************)
Next ==
  \/ Mount /\ UNCHANGED aside
  \/ \E t \in Readings : createNewConversation(t) /\ UNCHANGED aside
  \/ \E convId \in ConversationIds :
       switchConversation(convId) /\ UNCHANGED aside
  \/ \E value \in Inputs : setInput(value) /\ UNCHANGED aside
  \/ \E upload \in Uploads, t \in Readings :
       handleAddDocument(upload[1], upload[2], t) /\ UNCHANGED aside
  \/ \E docId \in DocumentIds : deleteDocument(docId) /\ UNCHANGED aside
  \/ \E t \in Readings : handleSendMessage(MaxMsgs, t) /\ UNCHANGED aside
  \/ \E k \in 1..Len(pending), d \in Replies, t \in Readings :
       handleResponse(k, d, t) /\ UNCHANGED aside
  \/ \E k \in 1..Len(pending), t \in Readings :
       handleFailure(k, t) /\ UNCHANGED aside

Spec == Init /\ [][Next]_vars

(***************************************************************************)
(* The conversations alone: the document handlers leave every variable of  *)
(* a conversation unchanged, and no conversation handler reads a document  *)
(* but to build the request body.                                          *)
(***************************************************************************)
NextChat ==
  \/ Mount /\ UNCHANGED aside
  \/ \E t \in Readings : createNewConversation(t) /\ UNCHANGED aside
  \/ \E convId \in ConversationIds :
       switchConversation(convId) /\ UNCHANGED aside
  \/ \E value \in {" ", "hi"} : setInput(value) /\ UNCHANGED aside
  \/ \E t \in Readings : handleSendMessage(MaxMsgs, t) /\ UNCHANGED aside
  \/ \E k \in 1..Len(pending), d \in Replies, t \in Readings :
       handleResponse(k, d, t) /\ UNCHANGED aside
  \/ \E k \in 1..Len(pending), t \in Readings :
       handleFailure(k, t) /\ UNCHANGED aside

SpecChat == Init /\ [][NextChat]_vars

\* threads of one turn, every input
NextTurn ==
  \/ Mount /\ UNCHANGED aside
  \/ \E t \in Readings : createNewConversation(t) /\ UNCHANGED aside
  \/ \E convId \in ConversationIds :
       switchConversation(convId) /\ UNCHANGED aside
  \/ \E value \in Inputs : setInput(value) /\ UNCHANGED aside
  \/ \E t \in Readings : handleSendMessage(MaxThread, t) /\ UNCHANGED aside
  \/ \E k \in 1..Len(pending), d \in Replies, t \in Readings :
       handleResponse(k, d, t) /\ UNCHANGED aside
  \/ \E k \in 1..Len(pending), t \in Readings :
       handleFailure(k, t) /\ UNCHANGED aside

SpecTurn == Init /\ [][NextTurn]_vars

\* threads of two turns, the clock read anew only by createNewConversation
NextTitle ==
  \/ \E t \in Readings : createNewConversation(t) /\ UNCHANGED aside
  \/ \E value \in {"hi", LongInput} : setInput(value) /\ UNCHANGED aside
  \/ handleSendMessage(MaxMsgs, now) /\ UNCHANGED aside
  \/ \E k \in 1..Len(pending), d \in Replies :
       handleResponse(k, d, now) /\ UNCHANGED aside
  \/ \E k \in 1..Len(pending) : handleFailure(k, now) /\ UNCHANGED aside

SpecTitle == Init /\ [][NextTitle]_vars

\* threads of two turns, one input, conversations selected; the clock is read
\* anew only by createNewConversation
NextThread ==
  \/ \E t \in Readings : createNewConversation(t) /\ UNCHANGED aside
  \/ \E convId \in ConversationIds :
       switchConversation(convId) /\ UNCHANGED aside
  \/ setInput("hi") /\ UNCHANGED aside
  \/ handleSendMessage(MaxMsgs, now) /\ UNCHANGED aside
  \/ \E k \in 1..Len(pending), d \in Replies :
       handleResponse(k, d, now) /\ UNCHANGED aside
  \/ \E k \in 1..Len(pending) : handleFailure(k, now) /\ UNCHANGED aside

SpecThread == Init /\ [][NextThread]_vars

(***************************************************************************)
(* Progress: the promise of fetch is settled by the browser, fulfilled or  *)
(* rejected, and the continuation of handleSendMessage then runs; a page   *)
(* load drops the requests of the page it replaces.                        *)
(***************************************************************************)
Settled ==
  \/ \E k \in 1..Len(pending), d \in Replies :
       handleResponse(k, d, now) /\ UNCHANGED aside
  \/ \E k \in 1..Len(pending) : handleFailure(k, now) /\ UNCHANGED aside

NextLive ==
  \/ Mount /\ UNCHANGED aside
  \/ \E t \in Readings : createNewConversation(t) /\ UNCHANGED aside
  \/ \E convId \in ConversationIds :
       switchConversation(convId) /\ UNCHANGED aside
  \/ setInput("hi") /\ UNCHANGED aside
  \/ handleSendMessage(MaxThread, now) /\ UNCHANGED aside
  \/ Settled

SpecLive == Init /\ [][NextLive]_vars /\ WF_vars(Settled)

(***************************************************************************)
(* The documents alone.                                                    *)
(***************************************************************************)
NextDocs ==
  \/ Mount /\ UNCHANGED aside
  \/ \E upload \in Uploads, t \in Readings :
       handleAddDocument(upload[1], upload[2], t) /\ UNCHANGED aside
  \/ \E docId \in DocumentIds : deleteDocument(docId) /\ UNCHANGED aside

SpecDocs == Init /\ [][NextDocs]_vars

(***************************************************************************)
(* Requests: documents are added and deleted, messages are sent.           *)
(***************************************************************************)
NextRequest ==
  \/ \E upload \in Uploads, t \in Readings :
       handleAddDocument(upload[1], upload[2], t) /\ UNCHANGED aside
  \/ \E docId \in DocumentIds : deleteDocument(docId) /\ UNCHANGED aside
  \/ createNewConversation(now) /\ UNCHANGED aside
  \/ \E value \in {" ", "hi"} : setInput(value) /\ UNCHANGED aside
  \/ handleSendMessage(MaxThread, now) /\ UNCHANGED aside

SpecRequest == Init /\ [][NextRequest]_vars

(***************************************************************************)
(* The extraction of the assistant text, over every shape of the response  *)
(* body: a request is pending in a new conversation and its response       *)
(* arrives.                                                                *)
(***************************************************************************)
FieldValues(text) == {Undefined, Str(""), Str(text)}

ResponseBodies ==
  [success : BOOLEAN,
   response : FieldValues("S") \cup
              {Obj(r, p, x) : r \in FieldValues("R"), p \in FieldValues("P"),
                              x \in FieldValues("T")},
   raw_response : FieldValues("W")]

InitExtract ==
  LET conv == NewConversation(StartNow)
      userMessage == [id |-> ToString(StartNow), content |-> "hi",
                      role |-> "user", timestamp |-> formatTimestamp(StartNow)]
      titled == TitledConversations(<<conv>>, conv.id, "hi")
  IN /\ conversations = titled
     /\ currentConversationId = conv.id
     /\ messages = <<conv.messages[1], userMessage>>
     /\ input = ""
     /\ loading = TRUE
     /\ knowledgeDocuments = <<>>
     /\ localStorage = SaveConversations(
          [conversations |-> NoItem, knowledgeDocuments |-> NoItem], titled)
     /\ now = StartNow
     /\ pending = << [conversations |-> titled,
                      currentConversationId |-> conv.id,
                      updatedMessages |-> <<conv.messages[1], userMessage>>,
                      input |-> "hi",
                      body |-> RequestBody("hi", <<>>, conv.id)] >>
     /\ data = Undefined
     /\ nAdds = 0
     /\ nDeletes = 0
     /\ noop = <<>>
     /\ fileSize = [bytes |-> 0, text |-> ""]

NextExtract ==
  \E k \in 1..Len(pending), d \in ResponseBodies :
    handleResponse(k, d, now) /\ UNCHANGED aside

SpecExtract == InitExtract /\ [][NextExtract]_vars

(***************************************************************************)
(* The size labels: the list of documents shows formatFileSize(doc.size),  *)
(* for a byte count from 0 to MaxBytes or next to a power of 1024.         *)
(***************************************************************************)
ByteCounts ==
  (0..MaxBytes)
    \cup {1024^i + d : i \in 1..3, d \in {-1, 0, 1}}
    \cup {1152, 1536, 2048, 1572864, 1024^3 + 10 * 1024^2}

InitSize ==
  /\ conversations = <<>>
  /\ currentConversationId = null
  /\ messages = <<>>
  /\ input = ""
  /\ loading = FALSE
  /\ knowledgeDocuments = <<>>
  /\ localStorage = [conversations |-> NoItem, knowledgeDocuments |-> NoItem]
  /\ now = StartNow
  /\ pending = <<>>
  /\ data = Undefined
  /\ nAdds = 0
  /\ nDeletes = 0
  /\ noop = <<>>
  /\ fileSize \in {[bytes |-> n, text |-> ""] : n \in ByteCounts}

\* {formatFileSize(doc.size)}
renderFileSize ==
  /\ fileSize.text = ""
  /\ fileSize' = [fileSize EXCEPT !.text = formatFileSize(fileSize.bytes)]
  /\ UNCHANGED <<program, nAdds, nDeletes, noop>>

SpecSize == InitSize /\ [][renderFileSize]_vars

(***************************************************************************)
(* The calls without effect.  The history variable noop holds the call     *)
(* that was the last event when that call left the state of the program as *)
(* it was, and nothing when the last event changed it.                     *)
(***************************************************************************)
Noop(call) ==
  /\ noop' = IF UNCHANGED program THEN call ELSE <<>>
  /\ UNCHANGED fileSize

\* documents are uploaded and deleted, the page is loaded
NextUpload ==
  \/ Mount /\ Noop(<<"Mount">>)
  \/ \E upload \in Uploads, t \in Readings :
       /\ handleAddDocument(upload[1], upload[2], t)
       /\ Noop(<<"handleAddDocument", upload[1], upload[2]>>)
  \/ \E docId \in DocumentIds :
       deleteDocument(docId) /\ Noop(<<"deleteDocument", docId>>)

SpecUpload == Init /\ [][NextUpload]_vars

\* conversations are created and selected, documents are added and deleted;
\* the clock is read anew only by handleAddDocument
NextLookup ==
  \/ createNewConversation(now) /\ Noop(<<"createNewConversation">>)
  \/ \E convId \in ConversationIds :
       switchConversation(convId) /\ Noop(<<"switchConversation", convId>>)
  \/ \E upload \in {<<"a", "x">>, <<"b", "yz">>}, t \in Readings :
       /\ handleAddDocument(upload[1], upload[2], t)
       /\ Noop(<<"handleAddDocument", upload[1], upload[2]>>)
  \/ \E docId \in DocumentIds :
       deleteDocument(docId) /\ Noop(<<"deleteDocument", docId>>)

SpecLookup == Init /\ [][NextLookup]_vars

\* messages are submitted; the clock is read anew only by
\* createNewConversation
NextSubmit ==
  \/ Mount /\ Noop(<<"Mount">>)
  \/ \E t \in Readings :
       createNewConversation(t) /\ Noop(<<"createNewConversation">>)
  \/ \E convId \in ConversationIds :
       switchConversation(convId) /\ Noop(<<"switchConversation", convId>>)
  \/ \E value \in {" ", "hi"} : setInput(value) /\ Noop(<<"setInput", value>>)
  \/ handleSendMessage(MaxThread, now) /\ Noop(<<"handleSendMessage">>)
  \/ \E k \in 1..Len(pending), d \in Replies :
       handleResponse(k, d, now) /\ Noop(<<"handleResponse">>)
  \/ \E k \in 1..Len(pending) :
       handleFailure(k, now) /\ Noop(<<"handleFailure">>)

SpecSubmit == Init /\ [][NextSubmit]_vars

(***************************************************************************)
(* Properties.                                                             *)
(***************************************************************************)
IsPrefix(a, b) == Len(a) <= Len(b) /\ SubSeq(b, 1, Len(a)) = a

Last(seq) == seq[Len(seq)]

UniqueIds(arr) ==
  \A i, j \in 1..Len(arr) : arr[i].id = arr[j].id => i = j

ErrorText == "Sorry, I encountered an error. Please try again."

\* C1: in every reachable state the active conversation id is null or the
\* id of a conversation of the conversations collection.
C1_ActiveIdExists ==
  \/ currentConversationId = null
  \/ \E i \in 1..Len(conversations) :
       conversations[i].id = currentConversationId

\* C2: in every step, every conversation of the collection (conversations
\* are told apart by their ids) that is still in the collection afterwards
\* has its message list of before as a prefix of its message list of after.
C2_AppendOnly ==
  [][(UniqueIds(conversations) /\ UniqueIds(conversations')) =>
       \A i \in 1..Len(conversations) :
         LET j == findIndex(conversations', conversations[i].id)
         IN j # 0 => IsPrefix(conversations[i].messages,
                              conversations'[j].messages)]_vars

\* C3: when a send fails, the visible thread is the thread the send started
\* from followed by the user's message and the fixed error message, and the
\* conversation the message was sent in has a stored message list that ends
\* with these two messages.
C3_FailingSend ==
  [][\A k \in 1..Len(pending), t \in Readings :
       handleFailure(k, t) =>
         LET r == pending[k]
             userMessage == Last(r.updatedMessages)
             before == SubSeq(r.updatedMessages, 1, Len(r.updatedMessages) - 1)
         IN /\ Len(messages') = Len(before) + 2
            /\ SubSeq(messages', 1, Len(before)) = before
            /\ messages'[Len(before) + 1] = userMessage
            /\ messages'[Len(before) + 2].content = ErrorText
            /\ \E i \in 1..Len(conversations') :
                 /\ conversations'[i].id = r.currentConversationId
                 /\ Len(conversations'[i].messages) >= 2
                 /\ LET stored == conversations'[i].messages
                    IN /\ stored[Len(stored) - 1] = userMessage
                       /\ stored[Len(stored)].content = ErrorText]_vars

\* C4: in every state, what a page load would read from localStorage is the
\* conversations collection and the documents collection of the memory.
C4_StoreMirrorsMemory ==
  /\ LoadedConversations(localStorage) = conversations
  /\ LoadedDocuments(localStorage) = knowledgeDocuments

\* C5: createNewConversation puts in front of the collection, which it
\* otherwise leaves as it was, a conversation titled 'New Conversation' whose
\* only message is the assistant greeting; the conversation becomes the
\* active one, its message the visible thread, and the input is cleared.
C5_Create ==
  [][\A t \in Readings :
       createNewConversation(t) =>
         /\ Len(conversations') = Len(conversations) + 1
         /\ Tail(conversations') = conversations
         /\ LET created == Head(conversations')
            IN /\ created.title = "New Conversation"
               /\ Len(created.messages) = 1
               /\ created.messages[1].role = "assistant"
               /\ created.messages[1].content = "Hi! How can I help you today?"
               /\ currentConversationId' = created.id
               /\ messages' = created.messages
         /\ input' = ""]_vars

\* a conversation was created while another one, which has a turn, existed
C5_Witness ==
  /\ Len(conversations) = 2
  /\ Len(conversations[1].messages) = 1
  /\ Len(conversations[2].messages) = 3
  /\ currentConversationId = conversations[1].id
  /\ messages = conversations[1].messages
  /\ conversations[1].id # conversations[2].id

\* the first 50 characters of a text
C6_First50(text) == IF Len(text) <= 50 THEN text ELSE SubSeq(text, 1, 50)

\* C6: a send accepted in a conversation that has one stored message sets
\* its title to the first 50 characters of the input, and a send accepted in
\* a conversation that has more stored messages leaves its title; when the
\* request is settled, by a response or by a failure, the conversation is
\* stored with the first 50 characters of the input as its title in the
\* first case and with the title it had in the second.
C6_Title ==
  [][/\ (SendAccepted /\ Len(pending') = Len(pending) + 1) =>
          LET i == findIndex(conversations, currentConversationId)
          IN i # 0 =>
               /\ Len(conversations') = Len(conversations)
               /\ conversations'[i].title =
                    IF Len(conversations[i].messages) = 1
                    THEN C6_First50(input)
                    ELSE conversations[i].title
     /\ \A k \in 1..Len(pending), t \in Readings :
          (handleFailure(k, t) \/ \E d \in Replies : handleResponse(k, d, t)) =>
            LET r == pending[k]
                sent == findIndex(r.conversations, r.currentConversationId)
                i == findIndex(conversations', r.currentConversationId)
            IN sent # 0 =>
                 /\ i # 0
                 /\ conversations'[i].title =
                      IF Len(r.conversations[sent].messages) = 1
                      THEN C6_First50(r.input)
                      ELSE r.conversations[sent].title]_vars

\* a second turn was settled in a conversation whose title is the cut input
C6_Witness ==
  /\ pending = <<>>
  /\ \E i \in 1..Len(conversations) :
       /\ Len(conversations[i].messages) = 5
       /\ conversations[i].messages[2].content = LongInput
       /\ conversations[i].messages[4].content = "hi"
       /\ conversations[i].messages[5].content = ErrorText
       /\ conversations[i].title = SubSeq(LongInput, 1, 50)
       /\ conversations[i].title # LongInput

\* C7: the message field of the request is the input followed, when there
\* are documents, by the header and, for every document in the order of the
\* collection, 'Document: ' and its name, a line feed and its content, the
\* documents separated by the line '---'; it is the input when there are none.
RECURSIVE C7_Documents(_)
C7_Documents(docs) ==
  IF Len(docs) = 1
  THEN "Document: " \o docs[1].name \o "\n" \o docs[1].content
  ELSE C7_Documents(SubSeq(docs, 1, Len(docs) - 1)) \o "\n---\n"
         \o "Document: " \o Last(docs).name \o "\n" \o Last(docs).content

C7_Message(text, docs) ==
  IF Len(docs) = 0 THEN text
  ELSE text \o "\n\nRelevant Knowledge Base:\n" \o C7_Documents(docs)

\* text occurs in whole
C7_Within(part, whole) ==
  \E i \in 1..(Len(whole) - Len(part) + 1) :
    SubSeq(whole, i, i + Len(part) - 1) = part

C7_RequestMessage ==
  [][(SendAccepted /\ Len(pending') = Len(pending) + 1) =>
       LET message == Last(pending').body.message
       IN /\ message = C7_Message(input, knowledgeDocuments)
          /\ \A i \in 1..Len(knowledgeDocuments) :
               C7_Within(knowledgeDocuments[i].content, message)]_vars

\* a request was issued while two documents of different content were stored
C7_Witness ==
  /\ Len(pending) = 1
  /\ Len(knowledgeDocuments) = 2
  /\ knowledgeDocuments[1].content # knowledgeDocuments[2].content
  /\ pending[1].body.message =
       "hi" \o knowledgeContext(knowledgeDocuments)

\* the candidates of the extraction, in their order, as texts ("" when absent)
C8_Text(v) == IF v.type = "string" THEN v.value ELSE ""

C8_Candidates(d) ==
  << IF d.response.type = "object" THEN C8_Text(d.response.result) ELSE "",
     IF d.response.type = "object" THEN C8_Text(d.response.response) ELSE "",
     IF d.response.type = "object" THEN C8_Text(d.response.text) ELSE "",
     C8_Text(d.response),
     C8_Text(d.raw_response) >>

C8_FirstNonEmpty(texts, otherwise) ==
  IF \E i \in 1..Len(texts) : texts[i] # ""
  THEN texts[CHOOSE i \in 1..Len(texts) :
               texts[i] # "" /\ \A j \in 1..(i - 1) : texts[j] = ""]
  ELSE otherwise

\* the text shown for the response that was last handled
C8_Shown == Last(messages).content

\* C8, as claimed: with the success flag set, the text shown is the first
\* non-empty candidate, and 'No response generated' when there is none.
C8_Original ==
  (data # Undefined /\ data.success) =>
    C8_Shown = C8_FirstNonEmpty(C8_Candidates(data), "No response generated")

\* C8, amended: with the success flag set, the text shown is the first
\* non-empty candidate; when there is none it is 'No response generated' if
\* the response field is an object, and 'I encountered an error processing
\* your request. Please try again.' if the response field is absent or an
\* empty string.
C8_Extraction ==
  (data # Undefined /\ data.success) =>
    C8_Shown =
      C8_FirstNonEmpty(C8_Candidates(data),
        IF data.response.type = "object"
        THEN "No response generated"
        ELSE "I encountered an error processing your request. Please try again.")

\* a response whose result is empty, whose response field is empty and whose
\* text field is set was handled
C8_Witness ==
  /\ data # Undefined
  /\ data.success
  /\ data.response = Obj(Str(""), Undefined, Str("T"))
  /\ data.raw_response = Str("W")
  /\ C8_Shown = "T"

\* C9: at most one request is pending.
C9_OnePending == Len(pending) <= 1

\* a conversation was created while a request was pending
C9_Witness ==
  /\ Len(pending) = 1
  /\ loading
  /\ currentConversationId # pending[1].currentConversationId
  /\ Len(conversations) > Len(pending[1].conversations)

\* C10: an accepted handleAddDocument puts in front of the collection, which
\* it otherwise leaves as it was, a document with the submitted name and
\* content; as long as no document was deleted the collection has as many
\* documents as there were accepted calls.
C10_AddDocument ==
  [][/\ \A upload \in Uploads, t \in Readings :
          (handleAddDocument(upload[1], upload[2], t)
             /\ ~IsBlank(upload[1]) /\ ~IsBlank(upload[2])) =>
            /\ Len(knowledgeDocuments') = Len(knowledgeDocuments) + 1
            /\ Tail(knowledgeDocuments') = knowledgeDocuments
            /\ Head(knowledgeDocuments').name = upload[1]
            /\ Head(knowledgeDocuments').content = upload[2]
     /\ nDeletes' = 0 => Len(knowledgeDocuments') = nAdds']_vars

\* two documents were added, the second one in front
C10_Witness ==
  /\ nAdds = 2
  /\ nDeletes = 0
  /\ Len(knowledgeDocuments) = 2
  /\ knowledgeDocuments[1].name = "b"
  /\ knowledgeDocuments[2].name = "a"

\* a text that is empty or made of white space only
C11_Blank(text) ==
  \A i \in 1..Len(text) : SubSeq(text, i, i) \in {" ", "\n", "\t"}

\* C11: handleAddDocument called with a name or a content that is empty or
\* white space only leaves the documents collection and localStorage as they
\* were, in every state.
C11_BlankRejected ==
  [][\A upload \in Uploads, t \in Readings :
       (/\ C11_Blank(upload[1]) \/ C11_Blank(upload[2])
        /\ handleAddDocument(upload[1], upload[2], t)) =>
         /\ knowledgeDocuments' = knowledgeDocuments
         /\ localStorage' = localStorage]_vars

\* a document is stored and an upload with a content of white space was the
\* last event
C11_Witness ==
  /\ noop = <<"handleAddDocument", "a", " \n">>
  /\ Len(knowledgeDocuments) = 1
  /\ localStorage.knowledgeDocuments # NoItem

\* C12: in every reachable state the conversations of the collection have
\* pairwise distinct ids and the documents of the collection have pairwise
\* distinct ids, the clock being free not to advance between two events.
C12_UniqueIds ==
  /\ \A i, j \in 1..Len(conversations) :
       i # j => conversations[i].id # conversations[j].id
  /\ \A i, j \in 1..Len(knowledgeDocuments) :
       i # j => knowledgeDocuments[i].id # knowledgeDocuments[j].id

\* C13: switchConversation called with the id of a conversation of the
\* collection makes that id the active one and the stored messages of that
\* conversation the visible thread, and leaves the conversations collection
\* and the documents collection as they were.
C13_Select ==
  [][\A convId \in ConversationIds :
       (/\ \E i \in 1..Len(conversations) : conversations[i].id = convId
        /\ switchConversation(convId)) =>
         /\ currentConversationId' = convId
         /\ \E i \in 1..Len(conversations) :
              /\ conversations[i].id = convId
              /\ messages' = conversations[i].messages
         /\ conversations' = conversations
         /\ knowledgeDocuments' = knowledgeDocuments]_vars

\* the second conversation, which has a turn, was selected while the first
\* one, which has none, was active
C13_Witness ==
  /\ Len(conversations) = 2
  /\ conversations[1].id # conversations[2].id
  /\ Len(conversations[1].messages) = 1
  /\ Len(conversations[2].messages) = 3
  /\ currentConversationId = conversations[2].id
  /\ messages = conversations[2].messages
  /\ pending = <<>>

\* the places of the documents whose id is not docId
C14_Kept(docs, docId) == {i \in 1..Len(docs) : docs[i].id # docId}

\* C14: switchConversation with an id that no conversation has, and
\* deleteDocument with an id that no document has, leave the active id, the
\* visible thread, both collections and localStorage as they were;
\* deleteDocument with the id of a document leaves no document with that id
\* and keeps the other documents in their order.
C14_LookupMiss ==
  [][/\ \A convId \in ConversationIds :
          (/\ \A i \in 1..Len(conversations) : conversations[i].id # convId
           /\ switchConversation(convId)) =>
            UNCHANGED <<currentConversationId, messages, conversations,
                        knowledgeDocuments, localStorage>>
     /\ \A docId \in DocumentIds :
          deleteDocument(docId) =>
            IF C14_Kept(knowledgeDocuments, docId) = 1..Len(knowledgeDocuments)
            THEN UNCHANGED <<currentConversationId, messages, conversations,
                             knowledgeDocuments, localStorage>>
            ELSE LET kept == C14_Kept(knowledgeDocuments, docId)
                 IN /\ Len(knowledgeDocuments') = Cardinality(kept)
                    /\ \A i \in kept :
                         knowledgeDocuments'[Cardinality({j \in kept : j <= i})]
                           = knowledgeDocuments[i]]_vars

\* of two documents one was deleted, another deletion found no document, and
\* the last event is the selection of an id that no conversation has, while a
\* conversation is active
C14_Witness ==
  /\ noop = <<"switchConversation", "0000">>
  /\ currentConversationId # null
  /\ nAdds = 2
  /\ nDeletes = 2
  /\ Len(knowledgeDocuments) = 1

\* the greeting followed by complete turns
C15_Turns(list) ==
  /\ Len(list) % 2 = 1
  /\ list[1].role = "assistant"
  /\ list[1].content = "Hi! How can I help you today?"
  /\ \A k \in 1..((Len(list) - 1) \div 2) :
       /\ list[2 * k].role = "user"
       /\ list[2 * k + 1].role = "assistant"

\* C15: in every reachable state the stored message list of every
\* conversation, in memory and in localStorage, is the assistant greeting
\* followed by zero or more turns, each a user message followed by an
\* assistant message; no stored list holds a user message without its reply.
C15_TurnAtomic ==
  /\ \A i \in 1..Len(conversations) : C15_Turns(conversations[i].messages)
  /\ LET stored == LoadedConversations(localStorage)
     IN \A i \in 1..Len(stored) : C15_Turns(stored[i].messages)

\* a request is pending in a conversation that has a turn, its user message
\* is not stored, and another conversation was created meanwhile
C15_Witness ==
  /\ Len(pending) = 1
  /\ Len(conversations) = 2
  /\ conversations[1].id = currentConversationId
  /\ conversations[2].id = pending[1].currentConversationId
  /\ conversations[1].id # conversations[2].id
  /\ Len(conversations[2].messages) = 3
  /\ Len(pending[1].updatedMessages) = 4
  /\ Len(pending[1].conversations) = 1

\* C16: the request issued by an accepted send carries 'user-chat-' and
\* 'session-' followed by the id of the conversation active at the send; when
\* the response or the failure of a request is handled, the collection holds
\* a conversation with the id the request carries, and its stored list ends
\* with the user message of that send followed by an assistant message,
\* whichever conversation is active then.
C16_Correlation ==
  [][/\ (SendAccepted /\ Len(pending') = Len(pending) + 1) =>
          /\ Last(pending').body.user_id = "user-chat-" \o currentConversationId
          /\ Last(pending').body.session_id = "session-" \o currentConversationId
     /\ \A k \in 1..Len(pending), t \in Readings :
          (handleFailure(k, t) \/ \E d \in Replies : handleResponse(k, d, t)) =>
            \E i \in 1..Len(conversations') :
              LET stored == conversations'[i].messages
              IN /\ pending[k].body.session_id = "session-" \o conversations'[i].id
                 /\ pending[k].body.user_id = "user-chat-" \o conversations'[i].id
                 /\ Len(stored) >= 2
                 /\ stored[Len(stored) - 1] = Last(pending[k].updatedMessages)
                 /\ stored[Len(stored)].role = "assistant"]_vars

\* C17: loading is true exactly in the states where a request is pending,
\* and, the promise of every request being settled, a state where loading is
\* true is followed by a state where it is false, whether the request was
\* answered or failed.
C17_Loading ==
  /\ [](loading <=> Len(pending) > 0)
  /\ loading ~> ~loading

\* a failed request was settled after another conversation was created:
\* loading is false again
C17_Witness ==
  /\ ~loading
  /\ pending = <<>>
  /\ Len(messages) = 3
  /\ messages[3].content = ErrorText
  /\ \A i \in 1..Len(conversations) :
       conversations[i].id # currentConversationId

\* C18: handleSendMessage called while the input is empty or white space
\* only, or while loading is set, or while no conversation is active, issues
\* no request and leaves the visible thread, the input, loading, both
\* collections and localStorage as they were.
C18_Rejected ==
  [][((C11_Blank(input) \/ loading \/ currentConversationId = null)
        /\ handleSendMessage(MaxThread, now)) =>
       /\ pending' = pending
       /\ UNCHANGED <<messages, input, loading, conversations,
                      knowledgeDocuments, localStorage>>]_vars

\* on a first page load, nothing persisted, a message was typed and submitted
\* with no conversation active
C18_Witness ==
  /\ noop = <<"handleSendMessage">>
  /\ currentConversationId = null
  /\ input = "hi"
  /\ ~loading
  /\ localStorage.conversations = NoItem

\* C19: in every step, every id of a conversation of the collection is still
\* the id of a conversation of the collection afterwards.
C19_NoConversationLost ==
  [][\A i \in 1..Len(conversations) :
       \E j \in 1..Len(conversations') :
         conversations'[j].id = conversations[i].id]_vars

\* C20: in every reachable state where loading is false and the active id is
\* the id of a conversation of the collection (ids being pairwise distinct),
\* the visible thread is the stored message list of that conversation.
C20_VisibleIsStored ==
  (/\ ~loading
   /\ UniqueIds(conversations)
   /\ findIndex(conversations, currentConversationId) # 0) =>
    messages =
      conversations[findIndex(conversations, currentConversationId)].messages

\* the part of a label after its space
C21_Unit(text) ==
  LET at == CHOOSE j \in 1..Len(text) : SubSeq(text, j, j) = " "
  IN SubSeq(text, at + 1, Len(text))

\* C21: the text formatFileSize returns for a byte count has its unit among
\* Bytes, KB and MB: '0 Bytes' for 0 and, for a byte count above 0, the unit
\* of index i, the largest i with 1024^i <= bytes; 11 gives '11 Bytes' and
\* 2048 gives '2 KB'.
C21_Units ==
  fileSize.text # "" =>
    /\ C21_Unit(fileSize.text) \in {"Bytes", "KB", "MB"}
    /\ fileSize.bytes = 0 => fileSize.text = "0 Bytes"
    /\ fileSize.bytes = 11 => fileSize.text = "11 Bytes"
    /\ fileSize.bytes = 2048 => fileSize.text = "2 KB"
    /\ fileSize.bytes > 0 =>
         \E i \in 0..2 :
           /\ 1024^i <= fileSize.bytes
           /\ fileSize.bytes < 1024^(i + 1)
           /\ C21_Unit(fileSize.text) = <<"Bytes", "KB", "MB">>[i + 1]
====
